---- MODULE Spec2Model ----
(***************************************************************************)
(* Model of the dispatch service registry (routes/index.js): the three     *)
(* registry indices, the listener directory, the notification fan-out and  *)
(* the reaper.  Node runs every handler and every callback to completion,  *)
(* so one action is one handler or one callback.                           *)
(***************************************************************************)
EXTENDS Integers, Sequences, FiniteSets, TLC

(* ---------------- bounds and input sets ---------------- *)

\* number of registrations accepted in one run (uuid.v4() values handed out)
MaxIds == 2
\* number of webhook subscriptions accepted in one run
MaxSubs == 2
\* number of registrations and subscriptions accepted in one run, together
\* (two services, or one service and one listener, or two listeners)
MaxRequests == 2

\* the value of req.body.tags when the field is missing
NoTags == <<"undefined">>
\* the bodies sent to PUT /register; ttl <<>> is a missing field and <<n>> the
\* number n; "a" is a service name and a tag
RegisterBodies ==
    {[service |-> "a", tags |-> <<"a", "t">>, ttl |-> <<>>],
     [service |-> "a", tags |-> <<"a", "t">>, ttl |-> <<0>>],
     [service |-> "a", tags |-> <<>>, ttl |-> <<59>>],
     [service |-> "b", tags |-> <<"t", "t">>, ttl |-> <<-1>>],
     [service |-> "b", tags |-> NoTags, ttl |-> <<>>]}
\* webhook bases as token sequences; the second one ends with "/"
Hook1 == <<"h1">>
Hook2 == <<"h2", "/">>
\* the subscriptions sent to PUT /listen/service/(name|tag)/id
ListenRequests ==
    {[selector |-> "name", id |-> "a", webhook |-> Hook1],
     [selector |-> "name", id |-> "t", webhook |-> Hook2],
     [selector |-> "tag", id |-> "t", webhook |-> Hook1]}
\* the webhooks sent to PUT /listen/service/all
ListenAllRequests == {Hook2}
\* the names and tags looked up
LookupKeys == {"a", "b", "t"}
\* the instants (ms) at which Date.now() is sampled
Instants == {0, 60000}
\* an instant at which a second reaper timer has run out
LaterInstants == {120000}
\* outcomes of one outbound request
Outcomes == {"ok", "status", "neterr"}

(* ---------------- program constants ---------------- *)

DEFAULT_SERVICE_TTL == 60
REAP_FREQUENCY == 60000

VARIABLES
    SERVICE_TO_UUID,    \* name -> sequence of uuids
    TAG_TO_UUID,        \* tag -> sequence of uuids
    UUID_TO_CONFIG,     \* uuid -> configBlob
    LISTENERS_BY_TAG,   \* tag -> sequence of webhooks
    LISTENERS_BY_NAME,  \* name -> sequence of webhooks
    LISTENERS_ALL,      \* sequence of webhooks
    now,                \* Date.now()
    nextUUID,           \* the next value uuid.v4() returns
    timerAt,            \* when the pending setTimeout(updateAndReap) fires
    reaping,            \* uuids whose reap notification the reaper waits for
    cycles,             \* notifyByObject calls that have not called next yet
    inflight,           \* request() calls whose callback has not run yet
    completed,          \* notifyByObject calls whose next the last step called
    crashed,            \* an exception escaped a callback
    lastEvent           \* what the last handler or callback did

registry == <<SERVICE_TO_UUID, TAG_TO_UUID, UUID_TO_CONFIG>>
listeners == <<LISTENERS_BY_TAG, LISTENERS_BY_NAME, LISTENERS_ALL>>
vars == <<SERVICE_TO_UUID, TAG_TO_UUID, UUID_TO_CONFIG, LISTENERS_BY_TAG,
          LISTENERS_BY_NAME, LISTENERS_ALL, now, nextUUID, timerAt, reaping,
          cycles, inflight, completed, crashed, lastEvent>>

(* ---------------- helpers: objects and arrays ---------------- *)

EmptyMap == [k \in {} |-> <<>>]

\* _.has(obj, key)
Has(obj, key) == key \in DOMAIN obj

\* obj[key] = value
Put(obj, key, value) ==
    [k \in DOMAIN obj \cup {key} |-> IF k = key THEN value ELSE obj[k]]

\* delete obj[key]
Delete(obj, key) == [k \in DOMAIN obj \ {key} |-> obj[k]]

\* _.without(array, value)
Without(array, value) == SelectSeq(array, LAMBDA x : x # value)

\* the elements of an array
Range(array) == {array[i] : i \in 1..Len(array)}

\* how many times value occurs in array
Count(array, value) == Cardinality({i \in 1..Len(array) : array[i] = value})

\* what a step did: the handler (or the outcome of the request whose callback
\* ran), the uuid it acted on and the response body it sent, if any
Event(op, uuid, result) == [op |-> op, uuid |-> uuid, result |-> result]

NoUUID == 0
\* timerAt when no setTimeout is pending
NoTimer == -1

(* ---------------- response bodies ---------------- *)

MsgOk == "ok"
MsgUUID == "uuid"
MsgRemoved == "service removed from dispatch"
MsgNotFound == "No such service UUID registered"
MsgNoSuch == "No such service UUID has been registered"
MsgThrown == "TypeError"
MsgNone == "none"

(* ---------------- Notification Dispatcher ---------------- *)

\* the webhook normalised to end with "/" and followed by the service id
fullWebhook(listener, serviceId) ==
    (IF listener[Len(listener)] # "/" THEN listener \o <<"/">> ELSE listener)
        \o <<serviceId>>

\* the requests notifyForService starts; <<>> is the branch that calls
\* finish() at once
notifyForService(LISTENER_GROUP, serviceId) ==
    IF Has(LISTENERS_BY_NAME, serviceId)
    THEN [i \in 1..Len(LISTENERS_BY_NAME[serviceId]) |->
            fullWebhook(LISTENERS_BY_NAME[serviceId][i], serviceId)]
    ELSE <<>>

\* the requests notifyForAll starts
notifyForAll ==
    [i \in 1..Len(LISTENERS_ALL) |-> fullWebhook(LISTENERS_ALL[i], "all")]

\* async.map over serviceObject.tags: every tag's requests start together
RECURSIVE notifyForTags(_)
notifyForTags(tags) ==
    IF tags = <<>> THEN <<>>
    ELSE notifyForService(LISTENERS_BY_TAG, Head(tags))
            \o notifyForTags(Tail(tags))

\* the request() calls of one notifyByObject call
Requests(c, urls) ==
    [i \in 1..Len(urls) |-> [kind |-> c.kind, uuid |-> c.uuid, url |-> urls[i]]]

\* some request of the running task of c has not called next yet
Outstanding(c, fl) ==
    \E i \in 1..Len(fl) : fl[i].kind = c.kind /\ fl[i].uuid = c.uuid

\* a series whose last task calls back without waiting for its requests
RECURSIVE SeriesNoWait(_, _)
SeriesNoWait(c, fl) ==
    IF c.stage = "all" THEN [cycle |-> [c EXCEPT !.stage = "done"], inflight |-> fl]
    ELSE IF Outstanding(c, fl) THEN [cycle |-> c, inflight |-> fl]
    ELSE IF c.stage = "name"
    THEN LET urls == notifyForTags(c.tags)
         IN  SeriesNoWait([c EXCEPT !.stage = "tags", !.attempts = @ \o urls],
                          fl \o Requests(c, urls))
    ELSE LET urls == notifyForAll
         IN  SeriesNoWait([c EXCEPT !.stage = "all", !.attempts = @ \o urls],
                          fl \o Requests(c, urls))

\* async.series over the three notifiers: a task starts when the one before
\* it has called back; the final callback calls next
RECURSIVE Series(_, _)
Series(c, fl) ==
    IF Outstanding(c, fl) THEN [cycle |-> c, inflight |-> fl]
    ELSE IF c.stage = "name"
    THEN LET urls == notifyForTags(c.tags)
         IN  Series([c EXCEPT !.stage = "tags", !.attempts = @ \o urls],
                    fl \o Requests(c, urls))
    ELSE IF c.stage = "tags"
    THEN LET urls == notifyForAll
         IN  Series([c EXCEPT !.stage = "all", !.attempts = @ \o urls],
                    fl \o Requests(c, urls))
    ELSE [cycle |-> [c EXCEPT !.stage = "done"], inflight |-> fl]

\* notifyByObject(serviceObject, next), called with ns = the calls and
\* requests under way; kind names the caller
notifyByObject(ns, kind, serviceObject) ==
    LET urls == notifyForService(LISTENERS_BY_NAME, serviceObject.service)
        c0 == [kind |-> kind, uuid |-> serviceObject.uuid,
               service |-> serviceObject.service, tags |-> serviceObject.tags,
               stage |-> "name", attempts |-> urls,
               byName |-> LISTENERS_BY_NAME, byTag |-> LISTENERS_BY_TAG,
               all |-> LISTENERS_ALL]
        r == Series(c0, ns.inflight \o Requests(c0, urls))
    IN  IF r.cycle.stage = "done"
        THEN [cycles |-> ns.cycles, inflight |-> r.inflight,
              done |-> ns.done \cup {r.cycle}]
        ELSE [cycles |-> ns.cycles \cup {r.cycle}, inflight |-> r.inflight,
              done |-> ns.done]

NotifyState == [cycles |-> cycles, inflight |-> inflight, done |-> {}]

\* the call of kind for uuid has called next
IsDone(ns, kind, uuid) == \E c \in ns.done : c.kind = kind /\ c.uuid = uuid

(* ---------------- Registry Store ---------------- *)

Store == [service |-> SERVICE_TO_UUID, tag |-> TAG_TO_UUID,
          config |-> UUID_TO_CONFIG]

\* parseInt(configBlob.ttl) || DEFAULT_SERVICE_TTL: a missing field parses
\* to NaN, and NaN and 0 are the falsy results
parseTtl(ttl) ==
    IF ttl = <<>> \/ ttl[1] = 0 THEN DEFAULT_SERVICE_TTL ELSE ttl[1]

\* a register handler that maps the record to its first tag only
mapTagsFirstOnly(tagMap, tags, uuid) ==
    IF tags = <<>> THEN tagMap
    ELSE LET tag == Head(tags)
             m == IF Has(tagMap, tag) THEN tagMap ELSE Put(tagMap, tag, <<>>)
         IN  Put(m, tag, Append(m[tag], uuid))

\* a register handler that puts the uuid at the front of each tag's array
RECURSIVE mapTagsPrepend(_, _, _)
mapTagsPrepend(tagMap, tags, uuid) ==
    IF tags = <<>> THEN tagMap
    ELSE LET tag == Head(tags)
             m == IF Has(tagMap, tag) THEN tagMap ELSE Put(tagMap, tag, <<>>)
         IN  mapTagsPrepend(Put(m, tag, <<uuid>> \o m[tag]), Tail(tags), uuid)

\* _.each(tags, ...) of the register handler: push uuid under every tag
RECURSIVE mapTags(_, _, _)
mapTags(tagMap, tags, uuid) ==
    IF tags = <<>> THEN tagMap
    ELSE LET tag == Head(tags)
             m == IF Has(tagMap, tag) THEN tagMap ELSE Put(tagMap, tag, <<>>)
         IN  mapTags(Put(m, tag, Append(m[tag], uuid)), Tail(tags), uuid)

\* _.each(serviceTags, ...) of reapService: drop uuid under every tag
RECURSIVE unlinkTags(_, _, _)
unlinkTags(tagMap, tags, uuid) ==
    IF tags = <<>> THEN tagMap
    ELSE unlinkTags(Put(tagMap, Head(tags), Without(tagMap[Head(tags)], uuid)),
                    Tail(tags), uuid)

\* a reapService that leaves the tag mappings linked
reapServiceKeepTags(st, serviceUUID) ==
    IF Has(st.config, serviceUUID)
    THEN LET serviceName == st.config[serviceUUID].service
         IN  [service |-> Put(st.service, serviceName,
                              Without(st.service[serviceName], serviceUUID)),
              tag |-> st.tag,
              config |-> Delete(st.config, serviceUUID)]
    ELSE st

\* a reapService that unlinks the mappings and leaves the config in place
reapServiceKeepConfig(st, serviceUUID) ==
    IF Has(st.config, serviceUUID)
    THEN LET serviceName == st.config[serviceUUID].service
             serviceTags == st.config[serviceUUID].tags
         IN  [service |-> Put(st.service, serviceName,
                              Without(st.service[serviceName], serviceUUID)),
              tag |-> unlinkTags(st.tag, serviceTags, serviceUUID),
              config |-> st.config]
    ELSE st

\* a reapService that deletes the entries it has emptied
reapServiceDropEmpty(st, serviceUUID) ==
    IF Has(st.config, serviceUUID)
    THEN LET serviceName == st.config[serviceUUID].service
             serviceTags == st.config[serviceUUID].tags
             byName == Put(st.service, serviceName,
                           Without(st.service[serviceName], serviceUUID))
             byTag == unlinkTags(st.tag, serviceTags, serviceUUID)
         IN  [service |-> [k \in {x \in DOMAIN byName : byName[x] # <<>>}
                              |-> byName[k]],
              tag |-> [k \in {x \in DOMAIN byTag : byTag[x] # <<>>}
                          |-> byTag[k]],
              config |-> Delete(st.config, serviceUUID)]
    ELSE st

\* reapService(serviceUUID) applied to the store st
reapService(st, serviceUUID) ==
    IF Has(st.config, serviceUUID)
    THEN LET serviceName == st.config[serviceUUID].service
             serviceTags == st.config[serviceUUID].tags
         IN  [service |-> Put(st.service, serviceName,
                              Without(st.service[serviceName], serviceUUID)),
              tag |-> unlinkTags(st.tag, serviceTags, serviceUUID),
              config |-> Delete(st.config, serviceUUID)]
    ELSE st

\* the endpoints a GET /service/(name|tag)/id answers with
lookup(selector, id) ==
    LET index == IF selector = "name" THEN SERVICE_TO_UUID ELSE TAG_TO_UUID
        uuids == IF Has(index, id) THEN index[id] ELSE <<>>
    IN  [i \in 1..Len(uuids) |->
            [uuid |-> UUID_TO_CONFIG[uuids[i]].uuid,
             endpoints |-> UUID_TO_CONFIG[uuids[i]].endpoint]]

(* ---------------- bounds on the requests of a run ---------------- *)

RECURSIVE SumLen(_, _)
SumLen(map, keys) ==
    IF keys = {} THEN 0
    ELSE LET k == CHOOSE x \in keys : TRUE
         IN  Len(map[k]) + SumLen(map, keys \ {k})

\* the number of subscriptions accepted so far
Subscriptions ==
    SumLen(LISTENERS_BY_NAME, DOMAIN LISTENERS_BY_NAME)
        + SumLen(LISTENERS_BY_TAG, DOMAIN LISTENERS_BY_TAG)
        + Len(LISTENERS_ALL)

\* the run still accepts a registration or a subscription
Accepting == (nextUUID - 1) + Subscriptions < MaxRequests

(* ---------------- handlers ---------------- *)

\* a register handler that stores the config before the log line that
\* throws on a body without tags
RegisterStoresFirst(service, tags, ttl) ==
    /\ ~crashed
    /\ nextUUID <= MaxIds
    /\ Accepting
    /\ LET serviceUUID == nextUUID
           configBlob == [service |-> service, endpoint |-> "e",
                          tags |-> IF tags = NoTags THEN <<>> ELSE tags,
                          created |-> now, lastHeartbeat |-> now, age |-> 0,
                          heartbeat |-> 0, ttl |-> parseTtl(ttl),
                          uuid |-> serviceUUID]
           byName == IF Has(SERVICE_TO_UUID, service) THEN SERVICE_TO_UUID
                     ELSE Put(SERVICE_TO_UUID, service, <<>>)
           ns == notifyByObject(NotifyState, "register", configBlob)
       IN  IF tags = NoTags
           THEN /\ UUID_TO_CONFIG' = Put(UUID_TO_CONFIG, serviceUUID, configBlob)
                /\ nextUUID' = nextUUID + 1
                /\ lastEvent' = Event("register", NoUUID, MsgThrown)
                /\ completed' = {}
                /\ UNCHANGED <<SERVICE_TO_UUID, TAG_TO_UUID, listeners, now,
                               timerAt, reaping, cycles, inflight, crashed>>
           ELSE /\ nextUUID' = nextUUID + 1
                /\ UUID_TO_CONFIG' = Put(UUID_TO_CONFIG, serviceUUID, configBlob)
                /\ SERVICE_TO_UUID' =
                       Put(byName, service, Append(byName[service], serviceUUID))
                /\ TAG_TO_UUID' = mapTags(TAG_TO_UUID, tags, serviceUUID)
                /\ cycles' = ns.cycles
                /\ inflight' = ns.inflight
                /\ completed' = ns.done
                /\ lastEvent' =
                       Event("register", serviceUUID,
                             IF IsDone(ns, "register", serviceUUID)
                             THEN MsgUUID ELSE MsgNone)
                /\ UNCHANGED <<listeners, now, timerAt, reaping, crashed>>

\* router.put("/register")
Register(service, tags, ttl) ==
    /\ ~crashed
    /\ nextUUID <= MaxIds
    /\ Accepting
    /\ IF tags = NoTags
       THEN \* configBlob.tags.join throws before anything is stored
            /\ lastEvent' = Event("register", NoUUID, MsgThrown)
            /\ completed' = {}
            /\ UNCHANGED <<registry, listeners, now, nextUUID, timerAt,
                           reaping, cycles, inflight, crashed>>
       ELSE LET serviceUUID == nextUUID
                configBlob == [service |-> service, endpoint |-> "e",
                               tags |-> tags, created |-> now,
                               lastHeartbeat |-> now, age |-> 0,
                               heartbeat |-> 0, ttl |-> parseTtl(ttl),
                               uuid |-> serviceUUID]
                byName == IF Has(SERVICE_TO_UUID, service) THEN SERVICE_TO_UUID
                          ELSE Put(SERVICE_TO_UUID, service, <<>>)
                ns == notifyByObject(NotifyState, "register", configBlob)
            IN  /\ nextUUID' = nextUUID + 1
                /\ UUID_TO_CONFIG' = Put(UUID_TO_CONFIG, serviceUUID, configBlob)
                /\ SERVICE_TO_UUID' =
                       Put(byName, service, Append(byName[service], serviceUUID))
                /\ TAG_TO_UUID' = mapTags(TAG_TO_UUID, tags, serviceUUID)
                /\ cycles' = ns.cycles
                /\ inflight' = ns.inflight
                /\ completed' = ns.done
                /\ lastEvent' =
                       Event("register", serviceUUID,
                             IF IsDone(ns, "register", serviceUUID)
                             THEN MsgUUID ELSE MsgNone)
                /\ UNCHANGED <<listeners, now, timerAt, reaping, crashed>>

\* a delete handler without the _.has guard: reapService gives {} for an
\* unknown uuid and the notification of {} still pings the all listeners
DeregisterUnguarded(serviceUUID) ==
    /\ ~crashed
    /\ LET st == reapService(Store, serviceUUID)
           configBlob == IF Has(UUID_TO_CONFIG, serviceUUID)
                         THEN UUID_TO_CONFIG[serviceUUID]
                         ELSE [uuid |-> serviceUUID, service |-> "undefined",
                               tags |-> <<>>]
           ns == notifyByObject(NotifyState, "deregister", configBlob)
       IN  /\ SERVICE_TO_UUID' = st.service
           /\ TAG_TO_UUID' = st.tag
           /\ UUID_TO_CONFIG' = st.config
           /\ cycles' = ns.cycles
           /\ inflight' = ns.inflight
           /\ completed' = ns.done
           /\ lastEvent' =
                  Event("deregister", serviceUUID,
                        IF IsDone(ns, "deregister", serviceUUID)
                        THEN MsgRemoved ELSE MsgNone)
    /\ UNCHANGED <<listeners, now, nextUUID, timerAt, reaping, crashed>>

\* a delete handler that notifies and leaves the record in place
DeregisterDeferred(serviceUUID) ==
    /\ ~crashed
    /\ IF Has(UUID_TO_CONFIG, serviceUUID)
       THEN LET ns == notifyByObject(NotifyState, "deregister",
                                     UUID_TO_CONFIG[serviceUUID])
            IN  /\ cycles' = ns.cycles
                /\ inflight' = ns.inflight
                /\ completed' = ns.done
                /\ lastEvent' =
                       Event("deregister", serviceUUID,
                             IF IsDone(ns, "deregister", serviceUUID)
                             THEN MsgRemoved ELSE MsgNone)
                /\ UNCHANGED registry
       ELSE /\ lastEvent' = Event("deregister", NoUUID, MsgNotFound)
            /\ completed' = {}
            /\ UNCHANGED <<registry, cycles, inflight>>
    /\ UNCHANGED <<listeners, now, nextUUID, timerAt, reaping, crashed>>

\* router.delete(/service/uuid/...)
Deregister(serviceUUID) ==
    /\ ~crashed
    /\ IF Has(UUID_TO_CONFIG, serviceUUID)
       THEN LET st == reapService(Store, serviceUUID)
                ns == notifyByObject(NotifyState, "deregister",
                                     UUID_TO_CONFIG[serviceUUID])
            IN  /\ SERVICE_TO_UUID' = st.service
                /\ TAG_TO_UUID' = st.tag
                /\ UUID_TO_CONFIG' = st.config
                /\ cycles' = ns.cycles
                /\ inflight' = ns.inflight
                /\ completed' = ns.done
                /\ lastEvent' =
                       Event("deregister", serviceUUID,
                             IF IsDone(ns, "deregister", serviceUUID)
                             THEN MsgRemoved ELSE MsgNone)
       ELSE /\ lastEvent' = Event("deregister", NoUUID, MsgNotFound)
            /\ completed' = {}
            /\ UNCHANGED <<registry, cycles, inflight>>
    /\ UNCHANGED <<listeners, now, nextUUID, timerAt, reaping, crashed>>

\* a heartbeat handler that also restarts the record's age
HeartbeatResetsCreated(serviceUUID) ==
    /\ ~crashed
    /\ IF Has(UUID_TO_CONFIG, serviceUUID)
       THEN /\ UUID_TO_CONFIG' =
                   [UUID_TO_CONFIG EXCEPT ![serviceUUID].lastHeartbeat = now,
                                          ![serviceUUID].created = now]
            /\ lastEvent' = Event("heartbeat", serviceUUID, MsgOk)
       ELSE /\ lastEvent' = Event("heartbeat", NoUUID, MsgNotFound)
            /\ UNCHANGED UUID_TO_CONFIG
    /\ completed' = {}
    /\ UNCHANGED <<SERVICE_TO_UUID, TAG_TO_UUID, listeners, now, nextUUID,
                   timerAt, reaping, cycles, inflight, crashed>>

\* a heartbeat handler that stores the time since the last heartbeat
\* where the instant of the heartbeat belongs
HeartbeatStoresAge(serviceUUID) ==
    /\ ~crashed
    /\ IF Has(UUID_TO_CONFIG, serviceUUID)
       THEN /\ UUID_TO_CONFIG' =
                   [UUID_TO_CONFIG EXCEPT
                       ![serviceUUID].lastHeartbeat = now - @]
            /\ lastEvent' = Event("heartbeat", serviceUUID, MsgOk)
       ELSE /\ lastEvent' = Event("heartbeat", NoUUID, MsgNotFound)
            /\ UNCHANGED UUID_TO_CONFIG
    /\ completed' = {}
    /\ UNCHANGED <<SERVICE_TO_UUID, TAG_TO_UUID, listeners, now, nextUUID,
                   timerAt, reaping, cycles, inflight, crashed>>

\* router.patch(/service/uuid/.../heartbeat)
Heartbeat(serviceUUID) ==
    /\ ~crashed
    /\ IF Has(UUID_TO_CONFIG, serviceUUID)
       THEN /\ UUID_TO_CONFIG' =
                   [UUID_TO_CONFIG EXCEPT ![serviceUUID].lastHeartbeat = now]
            /\ lastEvent' = Event("heartbeat", serviceUUID, MsgOk)
       ELSE /\ lastEvent' = Event("heartbeat", NoUUID, MsgNotFound)
            /\ UNCHANGED UUID_TO_CONFIG
    /\ completed' = {}
    /\ UNCHANGED <<SERVICE_TO_UUID, TAG_TO_UUID, listeners, now, nextUUID,
                   timerAt, reaping, cycles, inflight, crashed>>

\* router.get(/service/(name|tag)/...)
Lookup(selector, id) ==
    /\ ~crashed
    /\ lastEvent' = Event("lookup", NoUUID, MsgOk)
    /\ completed' = {}
    /\ UNCHANGED <<registry, listeners, now, nextUUID, timerAt, reaping,
                   cycles, inflight, crashed>>

\* router.get(/service/uuid/...): the branch of a registered uuid reads the
\* record and ends without a call on res, so the request stays open
LookupById(serviceUUID) ==
    /\ ~crashed
    /\ lastEvent' = IF Has(UUID_TO_CONFIG, serviceUUID)
                    THEN Event("lookupById", serviceUUID, MsgNone)
                    ELSE Event("lookupById", NoUUID, MsgNoSuch)
    /\ completed' = {}
    /\ UNCHANGED <<registry, listeners, now, nextUUID, timerAt, reaping,
                   cycles, inflight, crashed>>

\* router.get(/service/all): the handler's body is empty, so the request
\* stays open
Snapshot ==
    /\ ~crashed
    /\ lastEvent' = Event("snapshot", NoUUID, MsgNone)
    /\ completed' = {}
    /\ UNCHANGED <<registry, listeners, now, nextUUID, timerAt, reaping,
                   cycles, inflight, crashed>>

(* ---------------- Listener Directory ---------------- *)

\* a listen handler that does not add a webhook its list already holds
ListenDedup(selector, id, hook) ==
    /\ ~crashed
    /\ Subscriptions < MaxSubs
    /\ Accepting
    /\ IF selector = "name"
       THEN LET m == IF Has(LISTENERS_BY_NAME, id) THEN LISTENERS_BY_NAME
                     ELSE Put(LISTENERS_BY_NAME, id, <<>>)
            IN  /\ LISTENERS_BY_NAME' =
                       IF hook \in Range(m[id]) THEN m
                       ELSE Put(m, id, Append(m[id], hook))
                /\ UNCHANGED LISTENERS_BY_TAG
       ELSE LET m == IF Has(LISTENERS_BY_TAG, id) THEN LISTENERS_BY_TAG
                     ELSE Put(LISTENERS_BY_TAG, id, <<>>)
            IN  /\ LISTENERS_BY_TAG' =
                       IF hook \in Range(m[id]) THEN m
                       ELSE Put(m, id, Append(m[id], hook))
                /\ UNCHANGED LISTENERS_BY_NAME
    /\ lastEvent' = Event("listen", NoUUID, MsgOk)
    /\ completed' = {}
    /\ UNCHANGED <<registry, LISTENERS_ALL, now, nextUUID, timerAt, reaping,
                   cycles, inflight, crashed>>

\* router.put(/listen/service/(name|tag)/...)
Listen(selector, id, hook) ==
    /\ ~crashed
    /\ Subscriptions < MaxSubs
    /\ Accepting
    /\ IF selector = "name"
       THEN LET m == IF Has(LISTENERS_BY_NAME, id) THEN LISTENERS_BY_NAME
                     ELSE Put(LISTENERS_BY_NAME, id, <<>>)
            IN  /\ LISTENERS_BY_NAME' = Put(m, id, Append(m[id], hook))
                /\ UNCHANGED LISTENERS_BY_TAG
       ELSE LET m == IF Has(LISTENERS_BY_TAG, id) THEN LISTENERS_BY_TAG
                     ELSE Put(LISTENERS_BY_TAG, id, <<>>)
            IN  /\ LISTENERS_BY_TAG' = Put(m, id, Append(m[id], hook))
                /\ UNCHANGED LISTENERS_BY_NAME
    /\ lastEvent' = Event("listen", NoUUID, MsgOk)
    /\ completed' = {}
    /\ UNCHANGED <<registry, LISTENERS_ALL, now, nextUUID, timerAt, reaping,
                   cycles, inflight, crashed>>

\* router.put("/listen/service/all")
ListenAll(hook) ==
    /\ ~crashed
    /\ Subscriptions < MaxSubs
    /\ Accepting
    /\ LISTENERS_ALL' = Append(LISTENERS_ALL, hook)
    /\ lastEvent' = Event("listen", NoUUID, MsgOk)
    /\ completed' = {}
    /\ UNCHANGED <<registry, LISTENERS_BY_NAME, LISTENERS_BY_TAG, now,
                   nextUUID, timerAt, reaping, cycles, inflight, crashed>>

\* router.put("/listen/service/all") handled while a notification is under
\* way: the subscription is accepted beyond MaxRequests, so that a webhook
\* can subscribe between the requests of one notification
ListenAllDuring(hook) ==
    /\ ~crashed
    /\ Subscriptions < MaxSubs
    /\ cycles # {}
    /\ LISTENERS_ALL' = Append(LISTENERS_ALL, hook)
    /\ lastEvent' = Event("listen", NoUUID, MsgOk)
    /\ completed' = {}
    /\ UNCHANGED <<registry, LISTENERS_BY_NAME, LISTENERS_BY_TAG, now,
                   nextUUID, timerAt, reaping, cycles, inflight, crashed>>

(* ---------------- request callbacks ---------------- *)

RemoveAt(array, i) == SubSeq(array, 1, i - 1) \o SubSeq(array, i + 1, Len(array))

\* function (err, res, body) of the request inflight[i]: a network error
\* gives err and no res, so the log line's res.statusCode throws; any
\* answered request, whatever its status, has err = null
Callback(i, outcome) ==
    /\ ~crashed
    /\ i \in 1..Len(inflight)
    /\ LET d == inflight[i]
           c == CHOOSE x \in cycles : x.kind = d.kind /\ x.uuid = d.uuid
           fl == RemoveAt(inflight, i)
           r == Series(c, fl)
           finished == r.cycle.stage = "done"
           waiting == IF finished /\ c.kind = "reap"
                      THEN reaping \ {c.uuid} ELSE reaping
       IN  IF outcome = "neterr"
           THEN /\ crashed' = TRUE
                /\ inflight' = fl
                /\ lastEvent' = Event("callback", d.uuid, MsgThrown)
                /\ completed' = {}
                /\ UNCHANGED <<cycles, reaping, timerAt>>
           ELSE /\ inflight' = r.inflight
                /\ cycles' = (cycles \ {c}) \cup
                                (IF finished THEN {} ELSE {r.cycle})
                /\ completed' = IF finished THEN {r.cycle} ELSE {}
                /\ reaping' = waiting
                /\ timerAt' = IF waiting = {} /\ reaping # {}
                              THEN now + REAP_FREQUENCY ELSE timerAt
                /\ lastEvent' =
                       Event("callback", d.uuid,
                             IF ~finished \/ c.kind = "reap" THEN MsgNone
                             ELSE IF c.kind = "register" THEN MsgUUID
                             ELSE MsgRemoved)
                /\ UNCHANGED crashed
    /\ UNCHANGED <<registry, listeners, now, nextUUID>>

(* ---------------- Reaper ---------------- *)

\* updateServices(): heartbeat and age are kept in thousandths of a second
updateServices(config) ==
    [u \in DOMAIN config |->
        [config[u] EXCEPT !.heartbeat = now - config[u].lastHeartbeat,
                          !.age = now - config[u].created]]

\* a filter that also reaps a record whose heartbeat age equals its ttl
ExpiredAtTtl(serviceObject) ==
    serviceObject.heartbeat >= serviceObject.ttl * 1000

\* serviceObject.heartbeat > serviceObject.ttl
Expired(serviceObject) == serviceObject.heartbeat > serviceObject.ttl * 1000

\* the uuids of the given set in the order _.values lists them
RECURSIVE InOrder(_)
InOrder(uuids) ==
    IF uuids = {} THEN <<>>
    ELSE LET u == CHOOSE x \in uuids : \A y \in uuids : x <= y
         IN  <<u>> \o InOrder(uuids \ {u})

RECURSIVE reapAll(_, _)
reapAll(st, uuids) ==
    IF uuids = <<>> THEN st
    ELSE reapAll(reapService(st, Head(uuids)), Tail(uuids))

\* a reaper that notifies for the first reaped record only
notifyAllFirstOnly(ns, reapObjects) ==
    IF reapObjects = <<>> THEN ns
    ELSE notifyByObject(ns, "reap", Head(reapObjects))

\* async.map(reapObjects, notifyByObject, ...) of reapServices
RECURSIVE notifyAll(_, _)
notifyAll(ns, reapObjects) ==
    IF reapObjects = <<>> THEN ns
    ELSE notifyAll(notifyByObject(ns, "reap", Head(reapObjects)),
                   Tail(reapObjects))

\* a reaper rearmed by setInterval: the next timer is set when the tick
\* starts, whatever its notifications do
ReaperTickInterval ==
    /\ ~crashed
    /\ timerAt # NoTimer
    /\ now >= timerAt
    /\ LET config == updateServices(UUID_TO_CONFIG)
           reapUUIDs == InOrder({u \in DOMAIN config : Expired(config[u])})
           st == reapAll([Store EXCEPT !.config = config], reapUUIDs)
           reapObjects == [i \in 1..Len(reapUUIDs) |-> config[reapUUIDs[i]]]
           ns == notifyAll(NotifyState, reapObjects)
       IN  /\ SERVICE_TO_UUID' = st.service
           /\ TAG_TO_UUID' = st.tag
           /\ UUID_TO_CONFIG' = st.config
           /\ cycles' = ns.cycles
           /\ inflight' = ns.inflight
           /\ completed' = ns.done
           /\ reaping' = {}
           /\ timerAt' = now + REAP_FREQUENCY
           /\ lastEvent' = Event("reap", NoUUID, MsgNone)
    /\ UNCHANGED <<listeners, now, nextUUID, crashed>>

\* updateAndReap(), run by the timer
ReaperTick ==
    /\ ~crashed
    /\ timerAt # NoTimer
    /\ now >= timerAt
    /\ LET config == updateServices(UUID_TO_CONFIG)
           reapUUIDs == InOrder({u \in DOMAIN config : Expired(config[u])})
           st == reapAll([Store EXCEPT !.config = config], reapUUIDs)
           reapObjects == [i \in 1..Len(reapUUIDs) |-> config[reapUUIDs[i]]]
           ns == notifyAll(NotifyState, reapObjects)
           waiting == {u \in Range(reapUUIDs) : ~IsDone(ns, "reap", u)}
       IN  /\ SERVICE_TO_UUID' = st.service
           /\ TAG_TO_UUID' = st.tag
           /\ UUID_TO_CONFIG' = st.config
           /\ cycles' = ns.cycles
           /\ inflight' = ns.inflight
           /\ completed' = ns.done
           /\ reaping' = waiting
           /\ timerAt' = IF waiting = {} THEN now + REAP_FREQUENCY ELSE NoTimer
           /\ lastEvent' = Event("reap", NoUUID, MsgNone)
    /\ UNCHANGED <<listeners, now, nextUUID, crashed>>

\* time passes
Clock(t) ==
    /\ ~crashed
    /\ t > now
    /\ now' = t
    /\ lastEvent' = Event("clock", NoUUID, MsgNone)
    /\ completed' = {}
    /\ UNCHANGED <<registry, listeners, nextUUID, timerAt, reaping, cycles,
                   inflight, crashed>>

(* ---------------- specification ---------------- *)

Init ==
    /\ SERVICE_TO_UUID = EmptyMap
    /\ TAG_TO_UUID = EmptyMap
    /\ UUID_TO_CONFIG = EmptyMap
    /\ LISTENERS_BY_TAG = EmptyMap
    /\ LISTENERS_BY_NAME = EmptyMap
    /\ LISTENERS_ALL = <<>>
    /\ now = 0
    /\ nextUUID = 1
    /\ timerAt = REAP_FREQUENCY
    /\ reaping = {}
    /\ cycles = {}
    /\ inflight = <<>>
    /\ completed = {}
    /\ crashed = FALSE
    /\ lastEvent = Event("init", NoUUID, MsgNone)

Next ==
    \/ \E body \in RegisterBodies :
          Register(body.service, body.tags, body.ttl)
    \/ \E serviceUUID \in 1..MaxIds : Deregister(serviceUUID)
    \/ \E serviceUUID \in 1..MaxIds : Heartbeat(serviceUUID)
    \/ \E selector \in {"name", "tag"}, id \in LookupKeys :
          Lookup(selector, id)
    \/ \E serviceUUID \in 1..MaxIds : LookupById(serviceUUID)
    \/ Snapshot
    \/ \E r \in ListenRequests : Listen(r.selector, r.id, r.webhook)
    \/ \E hook \in ListenAllRequests : ListenAll(hook)
    \/ \E i \in 1..Len(inflight), outcome \in Outcomes : Callback(i, outcome)
    \/ ReaperTick
    \/ \E t \in Instants : Clock(t)

Spec == Init /\ [][Next]_vars

\* every request that was started gets its callback run
LiveSpec ==
    Init /\ [][Next]_vars
         /\ WF_vars(\E i \in 1..Len(inflight), outcome \in Outcomes :
                        Callback(i, outcome))

\* the webhook Hook2 never answers; every other request gets its callback run
Answers(d) == d.url[1] # Hook2[1]

SilentSpec ==
    Init /\ [][Next]_vars
         /\ WF_vars(\E i \in 1..Len(inflight), outcome \in Outcomes :
                        Answers(inflight[i]) /\ Callback(i, outcome))

\* the runs of Spec and those in which a webhook subscribes to all while a
\* notification is under way
CycleNext ==
    \/ Next
    \/ \E hook \in ListenAllRequests : ListenAllDuring(hook)

CycleSpec == Init /\ [][CycleNext]_vars

\* the runs that last until a second timer has run out, the first tick
\* having run when its timer did; the requests that only read are left out
TickNext ==
    \/ \E body \in RegisterBodies :
          Register(body.service, body.tags, body.ttl)
    \/ \E serviceUUID \in 1..MaxIds : Deregister(serviceUUID)
    \/ \E serviceUUID \in 1..MaxIds : Heartbeat(serviceUUID)
    \/ \E r \in ListenRequests : Listen(r.selector, r.id, r.webhook)
    \/ \E hook \in ListenAllRequests : ListenAll(hook)
    \/ \E i \in 1..Len(inflight), outcome \in Outcomes : Callback(i, outcome)
    \/ ReaperTick
    \/ \E t \in Instants : Clock(t)
    \/ \E t \in LaterInstants : timerAt # REAP_FREQUENCY /\ Clock(t)

TickSpec == Init /\ [][TickNext]_vars

(* ---------------- properties ---------------- *)

\* the uuids an index lists under a key
Listed(index, key) == IF Has(index, key) THEN Range(index[key]) ELSE {}

\* the names and tags of the live records
LiveNames == {UUID_TO_CONFIG[u].service : u \in DOMAIN UUID_TO_CONFIG}
LiveTags == UNION {Range(UUID_TO_CONFIG[u].tags) : u \in DOMAIN UUID_TO_CONFIG}

\* C1: in every reachable state the uuids listed under a name are exactly the
\* live records of that name, and the uuids listed under a tag are exactly the
\* live records carrying that tag; no entry lists a uuid that is not live.
C1_IndicesAgree ==
    /\ \A n \in DOMAIN SERVICE_TO_UUID \cup LiveNames :
          Listed(SERVICE_TO_UUID, n) =
              {u \in DOMAIN UUID_TO_CONFIG : UUID_TO_CONFIG[u].service = n}
    /\ \A t \in DOMAIN TAG_TO_UUID \cup LiveTags :
          Listed(TAG_TO_UUID, t) =
              {u \in DOMAIN UUID_TO_CONFIG : t \in Range(UUID_TO_CONFIG[u].tags)}

\* two services were registered, one of them was removed and the other,
\* which shares a tag entry with it, is live
C1_Witness ==
    /\ nextUUID = 3
    /\ Cardinality(DOMAIN UUID_TO_CONFIG) = 1
    /\ lastEvent.op \in {"deregister", "reap"}
    /\ \E t \in DOMAIN TAG_TO_UUID : TAG_TO_UUID[t] # <<>>

\* the rows of a lookup result that are not those of uuid
RowsWithout(rows, uuid) == SelectSeq(rows, LAMBDA row : row.uuid # uuid)

\* C2: a registration makes the new record appear in the lookup of its name
\* and of each of its tags and in no other lookup, and leaves the rows of
\* every lookup that were there before as they were.
C2_RegisterAppears ==
    [][(lastEvent'.op = "register" /\ lastEvent'.uuid = nextUUID) =>
        LET u == nextUUID
            rec == UUID_TO_CONFIG'[u]
        IN  \A selector \in {"name", "tag"}, id \in LookupKeys :
               LET before == lookup(selector, id)
                   after == lookup(selector, id)'
                   own == \/ selector = "name" /\ id = rec.service
                          \/ selector = "tag" /\ id \in Range(rec.tags)
               IN  /\ RowsWithout(after, u) = before
                   /\ own <=> (\E i \in 1..Len(after) : after[i].uuid = u)
      ]_vars

\* the second registration carried the tags "a" and "t" while the first
\* record was live
C2_Witness ==
    /\ lastEvent.op = "register"
    /\ lastEvent.uuid = 2
    /\ DOMAIN UUID_TO_CONFIG = {1, 2}
    /\ UUID_TO_CONFIG[2].tags = <<"a", "t">>
    /\ UUID_TO_CONFIG[1].service = "b"

\* the requests a webhook can be sent
Aimed(hook) == {fullWebhook(hook, id) : id \in LookupKeys \cup {"all"}}

\* C3: when a notification of a record has called next, every webhook that
\* was subscribed by tag to one of the record's tags when it started has been
\* sent a request to webhook/tag.
C3_TagListenersNotified ==
    \A c \in completed :
        \A t \in Range(c.tags) :
            Has(c.byTag, t) =>
                \A i \in 1..Len(c.byTag[t]) :
                    Count(c.attempts, fullWebhook(c.byTag[t][i], t)) >= 1

\* C4: when a notification of a record of name N has called next, every entry
\* of the name listeners of N was sent exactly one request to webhook/N and
\* every entry of the all listeners exactly one to webhook/all, and a webhook
\* subscribed only to other names was sent nothing.
C4_NameAndAllOnce ==
    \A c \in completed :
        /\ Has(c.byName, c.service) =>
              \A hook \in Range(c.byName[c.service]) :
                  Count(c.attempts, fullWebhook(hook, c.service)) =
                      Count(c.byName[c.service], hook)
        /\ \A hook \in Range(c.all) :
              Count(c.attempts, fullWebhook(hook, "all")) = Count(c.all, hook)
        /\ \A n \in DOMAIN c.byName \ {c.service} :
              \A hook \in Range(c.byName[n]) :
                  (/\ hook \notin Range(c.all)
                   /\ \A k \in DOMAIN c.byTag : hook \notin Range(c.byTag[k])
                   /\ hook \notin Listed(c.byName, c.service))
                  => Range(c.attempts) \cap Aimed(hook) = {}

\* C5: a request that fails does not stop the process: its callback returns
\* and the notification goes on.
C5_FailureIgnored == ~crashed

\* C6: a notification that has called next, and so the response the caller
\* got, has none of its requests outstanding.
C6_DoneAfterDeliveries ==
    /\ \A c \in completed : ~Outstanding(c, inflight)
    /\ \A i \in 1..Len(inflight) :
          inflight[i].uuid = lastEvent.uuid =>
              /\ lastEvent.result = MsgUUID => inflight[i].kind # "register"
              /\ lastEvent.result = MsgRemoved => inflight[i].kind # "deregister"

\* a registration was answered after the two requests of its notification
C6_Witness ==
    /\ lastEvent.result = MsgUUID
    /\ \E c \in completed :
          c.kind = "register" /\ c.uuid = lastEvent.uuid /\ Len(c.attempts) >= 2

\* a notification of the given kind for uuid has not called next yet
Pending(kind, uuid) == \E c \in cycles : c.kind = kind /\ c.uuid = uuid

\* C7: a registration whose notification is under way is eventually answered
\* with its uuid, when every request that was started gets its callback run.
C7_RegisterReturns ==
    \A u \in 1..MaxIds :
        Pending("register", u) ~>
            (lastEvent.uuid = u /\ lastEvent.result = MsgUUID)

\* C8: a notification under way eventually calls next (the caller is answered,
\* the reaper sets its next timer) even when one webhook never answers, unless
\* the process has stopped.
C8_NoOperationBlocks ==
    /\ \A u \in 1..MaxIds :
          Pending("register", u) ~> (~Pending("register", u) \/ crashed)
    /\ \A u \in 1..MaxIds :
          Pending("deregister", u) ~> (~Pending("deregister", u) \/ crashed)
    /\ (timerAt = NoTimer) ~> (timerAt # NoTimer \/ crashed)

\* C9: a heartbeat or a delete for a uuid that is not registered answers
\* NotFound, changes neither the registry nor the listeners and starts no
\* request; nothing else answers NotFound.
C9_UnknownIdNotFound ==
    [][/\ \A u \in 1..MaxIds :
             ((Heartbeat(u) \/ Deregister(u)) /\ ~Has(UUID_TO_CONFIG, u))
                 => lastEvent'.result = MsgNotFound
       /\ lastEvent'.result = MsgNotFound =>
             /\ UNCHANGED <<registry, listeners, cycles, inflight>>
             /\ completed' = {}
             /\ \E u \in 1..MaxIds : ~Has(UUID_TO_CONFIG, u)
      ]_vars

\* a delete was answered NotFound for a uuid that had been registered and
\* removed
C9_Witness ==
    /\ lastEvent = Event("deregister", NoUUID, MsgNotFound)
    /\ nextUUID = 2
    /\ UUID_TO_CONFIG = EmptyMap

\* C10: a heartbeat that succeeds for X changes the lastHeartbeat of X and
\* nothing else of the registry, of the listeners or of the requests.
C10_HeartbeatFrame ==
    [][\A u \in 1..MaxIds :
          lastEvent' = Event("heartbeat", u, MsgOk) =>
              /\ Has(UUID_TO_CONFIG, u)
              /\ UUID_TO_CONFIG' =
                     [UUID_TO_CONFIG EXCEPT ![u].lastHeartbeat = now]
              /\ UNCHANGED <<SERVICE_TO_UUID, TAG_TO_UUID, listeners, cycles,
                             inflight>>
              /\ completed' = {}
      ]_vars

\* a heartbeat moved the lastHeartbeat of one of two live records
C10_Witness ==
    /\ lastEvent.op = "heartbeat"
    /\ lastEvent.result = MsgOk
    /\ DOMAIN UUID_TO_CONFIG = {1, 2}
    /\ UUID_TO_CONFIG[lastEvent.uuid].lastHeartbeat >
           UUID_TO_CONFIG[lastEvent.uuid].created

\* the live records whose heartbeat age, now minus lastHeartbeat, is above
\* their ttl
Overdue ==
    {u \in DOMAIN UUID_TO_CONFIG :
        now - UUID_TO_CONFIG[u].lastHeartbeat > UUID_TO_CONFIG[u].ttl * 1000}

\* C11: a reaper tick removes exactly the live records whose heartbeat age
\* is strictly above their ttl: they leave the registry and every lookup,
\* and a record whose age is at most its ttl, the one exactly at its ttl
\* included, stays live and listed.
C11_ReapExactlyExpired ==
    [][lastEvent'.op = "reap" =>
        /\ DOMAIN UUID_TO_CONFIG' = DOMAIN UUID_TO_CONFIG \ Overdue
        /\ \A selector \in {"name", "tag"}, id \in LookupKeys :
              LET before == lookup(selector, id)
                  after == lookup(selector, id)'
              IN  after = SelectSeq(before, LAMBDA row : row.uuid \notin Overdue)
      ]_vars

\* a tick removed one of two records and kept the other, whose heartbeat
\* age was exactly its ttl
C11_Witness ==
    /\ lastEvent.op = "reap"
    /\ nextUUID = 3
    /\ Cardinality(DOMAIN UUID_TO_CONFIG) = 1
    /\ \E u \in DOMAIN UUID_TO_CONFIG :
          UUID_TO_CONFIG[u].heartbeat = UUID_TO_CONFIG[u].ttl * 1000

\* C12: every live record has a strictly positive ttl, the default being
\* applied to a registration whose ttl is absent, zero or negative.
C12_TtlPositive ==
    \A u \in DOMAIN UUID_TO_CONFIG : UUID_TO_CONFIG[u].ttl > 0

\* C13 as stated: no key of the name index or of the tag index maps to an
\* empty array.
C13_NoEmptyEntry ==
    /\ \A n \in DOMAIN SERVICE_TO_UUID : SERVICE_TO_UUID[n] # <<>>
    /\ \A t \in DOMAIN TAG_TO_UUID : TAG_TO_UUID[t] # <<>>

\* C13: a removal never drops a key of the name index or of the tag index:
\* the entry that loses its last uuid stays and maps to an empty array, for
\* which the lookup answers an empty list.
C13_EmptyEntryKept ==
    [][/\ DOMAIN SERVICE_TO_UUID \subseteq DOMAIN SERVICE_TO_UUID'
       /\ DOMAIN TAG_TO_UUID \subseteq DOMAIN TAG_TO_UUID'
       /\ \A n \in DOMAIN SERVICE_TO_UUID \ LiveNames' :
             SERVICE_TO_UUID'[n] = <<>> /\ lookup("name", n)' = <<>>
       /\ \A t \in DOMAIN TAG_TO_UUID \ LiveTags' :
             TAG_TO_UUID'[t] = <<>> /\ lookup("tag", t)' = <<>>
      ]_vars

\* a removal took the last uuid of a name entry and of a tag entry, and
\* both keys are still there
C13_Witness ==
    /\ lastEvent.op \in {"deregister", "reap"}
    /\ \E n \in DOMAIN SERVICE_TO_UUID : SERVICE_TO_UUID[n] = <<>>
    /\ \E t \in DOMAIN TAG_TO_UUID : TAG_TO_UUID[t] = <<>>

\* the records a lookup's rows stand for
RowRecords(rows) == [i \in 1..Len(rows) |-> UUID_TO_CONFIG[rows[i].uuid]]

C15_LookupByIdAnswers ==
    lastEvent.op = "lookupById" =>
        \/ lastEvent.result = MsgNoSuch /\ lastEvent.uuid = NoUUID
        \/ lastEvent.result = MsgOk /\ Has(UUID_TO_CONFIG, lastEvent.uuid)

\* C16: every GET /service/all is answered, with a copy of the registry as
\* it is when the request is handled.
C16_SnapshotAnswered ==
    lastEvent.op = "snapshot" => lastEvent.result = MsgOk

\* array a is the beginning of array b
IsPrefix(a, b) == Len(a) <= Len(b) /\ SubSeq(b, 1, Len(a)) = a

\* the webhooks a listener map holds under a key
Hooks(map, key) == IF Has(map, key) THEN map[key] ELSE <<>>

\* C17: a subscription puts exactly one entry at the end of the list it
\* names, duplicates included, and changes no other list and no registry
\* index; no other step changes a listener list, so no entry is ever
\* removed or moved.
C17_ListenAppendsOnly ==
    [][/\ \A r \in ListenRequests :
             (lastEvent'.op = "listen" /\ Listen(r.selector, r.id, r.webhook)) =>
                 /\ r.selector = "name" =>
                        LISTENERS_BY_NAME'[r.id] =
                            Append(Hooks(LISTENERS_BY_NAME, r.id), r.webhook)
                 /\ r.selector = "tag" =>
                        LISTENERS_BY_TAG'[r.id] =
                            Append(Hooks(LISTENERS_BY_TAG, r.id), r.webhook)
       /\ \A hook \in ListenAllRequests :
             (lastEvent'.op = "listen" /\ ListenAll(hook)) =>
                 LISTENERS_ALL' = Append(LISTENERS_ALL, hook)
       /\ lastEvent'.op = "listen" =>
             /\ Subscriptions' = Subscriptions + 1
             /\ UNCHANGED registry
       /\ lastEvent'.op # "listen" => UNCHANGED listeners
       /\ \A k \in DOMAIN LISTENERS_BY_NAME :
             IsPrefix(LISTENERS_BY_NAME[k], Hooks(LISTENERS_BY_NAME, k)')
       /\ \A k \in DOMAIN LISTENERS_BY_TAG :
             IsPrefix(LISTENERS_BY_TAG[k], Hooks(LISTENERS_BY_TAG, k)')
       /\ IsPrefix(LISTENERS_ALL, LISTENERS_ALL')
      ]_vars

\* the same webhook was subscribed twice to one name and is listed twice
C17_Witness ==
    /\ lastEvent.op = "listen"
    /\ \E k \in DOMAIN LISTENERS_BY_NAME :
          /\ Len(LISTENERS_BY_NAME[k]) = 2
          /\ LISTENERS_BY_NAME[k][1] = LISTENERS_BY_NAME[k][2]

\* the notification the delete handler would start for serviceObject when
\* nothing else is under way
AsDeregister(serviceObject) ==
    LET ns == notifyByObject([cycles |-> {}, inflight |-> <<>>, done |-> {}],
                             "deregister", serviceObject)
    IN  ns.cycles \cup ns.done

\* C18: a reaper tick unlinks every record it removes from its name array
\* and its tag arrays as the delete handler does, and starts for each of
\* them exactly one notification, which carries the record's name and tags
\* and sends what the notification of an explicit delete would send.
C18_ReapAsDeregister ==
    [][lastEvent'.op = "reap" =>
        LET gone == DOMAIN UUID_TO_CONFIG \ DOMAIN UUID_TO_CONFIG'
            started == {c \in cycles' \cup completed' : c.kind = "reap"}
        IN  /\ DOMAIN SERVICE_TO_UUID' = DOMAIN SERVICE_TO_UUID
            /\ DOMAIN TAG_TO_UUID' = DOMAIN TAG_TO_UUID
            /\ \A n \in DOMAIN SERVICE_TO_UUID :
                  SERVICE_TO_UUID'[n] =
                      SelectSeq(SERVICE_TO_UUID[n], LAMBDA x : x \notin gone)
            /\ \A t \in DOMAIN TAG_TO_UUID :
                  TAG_TO_UUID'[t] =
                      SelectSeq(TAG_TO_UUID[t], LAMBDA x : x \notin gone)
            /\ {c.uuid : c \in started} = gone
            /\ \A u \in gone :
                  /\ Cardinality({c \in started : c.uuid = u}) = 1
                  /\ \A c \in started :
                        c.uuid = u =>
                            /\ c.service = UUID_TO_CONFIG[u].service
                            /\ c.tags = UUID_TO_CONFIG[u].tags
                            /\ [c EXCEPT !.kind = "deregister"]
                                   \in AsDeregister(UUID_TO_CONFIG[u])
      ]_vars

\* a tick reaped a record and the notification it started for it has sent
\* a request to a listener
C18_Witness ==
    /\ lastEvent.op = "reap"
    /\ \E c \in cycles \cup completed :
          c.kind = "reap" /\ c.attempts # <<>>

\* uuid was registered and is no longer
Removed(uuid) == uuid < nextUUID /\ ~Has(UUID_TO_CONFIG, uuid)

\* the notifications of a removal of uuid that this step starts
RemovalsStarted(uuid) ==
    {c.kind : c \in {x \in cycles' \cup completed' :
                        /\ x.uuid = uuid
                        /\ x.kind \in {"deregister", "reap"}
                        /\ ~Pending(x.kind, uuid)}}

\* C19: whatever the order of ticks, delete requests and request callbacks,
\* a uuid that was removed stays removed, a removal notification for a uuid
\* starts only in the step that removes it and that step starts exactly
\* one, and a delete for a uuid already removed answers NotFound and
\* changes and starts nothing.
C19_RemovedOnce ==
    [][\A u \in 1..MaxIds :
          /\ Removed(u) => Removed(u)'
          /\ RemovalsStarted(u) # {} =>
                 Has(UUID_TO_CONFIG, u) /\ ~Has(UUID_TO_CONFIG', u)
          /\ (Has(UUID_TO_CONFIG, u) /\ ~Has(UUID_TO_CONFIG', u)) =>
                 Cardinality(RemovalsStarted(u)) = 1
          /\ (Removed(u) /\ Deregister(u)) =>
                 /\ lastEvent' = Event("deregister", NoUUID, MsgNotFound)
                 /\ UNCHANGED <<registry, listeners, cycles, inflight>>
      ]_vars

\* a delete was answered NotFound for a uuid the reaper had removed, while
\* the reaper's notification for it was still under way
C19_Witness ==
    /\ lastEvent = Event("deregister", NoUUID, MsgNotFound)
    /\ Removed(1)
    /\ Pending("reap", 1)

\* the keys of an index whose array holds uuid
KeysListing(index, uuid) == {k \in DOMAIN index : uuid \in Range(index[k])}

\* uuid is in the config map, under its name and under each of its tags and
\* nowhere else, or it is in none of the three maps
AllOrNone(uuid) ==
    IF Has(UUID_TO_CONFIG, uuid)
    THEN /\ KeysListing(SERVICE_TO_UUID, uuid) = {UUID_TO_CONFIG[uuid].service}
         /\ KeysListing(TAG_TO_UUID, uuid) = Range(UUID_TO_CONFIG[uuid].tags)
    ELSE /\ KeysListing(SERVICE_TO_UUID, uuid) = {}
         /\ KeysListing(TAG_TO_UUID, uuid) = {}

\* C20: before and after every handler, callback and tick each uuid is in
\* all three maps or in none, so no request sees a registration or a
\* removal half applied; and a registration that throws on a body without
\* tags changes none of the three maps.
C20_NoPartialUpdate ==
    [][/\ \A u \in 1..MaxIds :
             AllOrNone(u) /\ (UNCHANGED registry \/ AllOrNone(u)')
       /\ \A body \in RegisterBodies :
             (body.tags = NoTags /\ Register(body.service, body.tags, body.ttl))
                 => /\ lastEvent' = Event("register", NoUUID, MsgThrown)
                    /\ UNCHANGED <<registry, cycles, inflight>>
       /\ lastEvent'.result = MsgThrown /\ lastEvent'.op = "register"
             => UNCHANGED registry
      ]_vars

\* a registration without tags threw while another record was live
C20_Witness ==
    /\ lastEvent = Event("register", NoUUID, MsgThrown)
    /\ DOMAIN UUID_TO_CONFIG # {}
    /\ \A u \in DOMAIN UUID_TO_CONFIG : UUID_TO_CONFIG[u].tags # <<>>

\* the requests the listener lists read when the notification c started
\* can give rise to
FromSnapshot(c) ==
    {fullWebhook(hook, "all") : hook \in Range(c.all)}
        \cup UNION {{fullWebhook(hook, k) : hook \in Range(c.byName[k])} :
                        k \in DOMAIN c.byName}
        \cup UNION {{fullWebhook(hook, k) : hook \in Range(c.byTag[k])} :
                        k \in DOMAIN c.byTag}

\* C21: the requests of a notification go only to webhooks that were in
\* the name, tag and all listener lists when the notification started; a
\* webhook subscribed after that is sent nothing by it.
C21_ListenersReadOnce ==
    \A c \in cycles \cup completed : Range(c.attempts) \subseteq FromSnapshot(c)

\* a notification started by the reaper has not called back yet
ReapOutstanding == \E c \in cycles : c.kind = "reap"

C23_SweepNotAborted ==
    (reaping # {}) ~> (reaping = {} /\ timerAt # NoTimer)

\* the number of requests the notification of kind for uuid has started
Attempts(cs, kind, uuid) ==
    IF \E c \in cs : c.kind = kind /\ c.uuid = uuid
    THEN Len((CHOOSE c \in cs : c.kind = kind /\ c.uuid = uuid).attempts)
    ELSE 0

\* this step starts a request of the notification of kind for uuid
Sends(kind, uuid) ==
    Attempts(cycles' \cup completed', kind, uuid) > Attempts(cycles, kind, uuid)

\* C24: a step that starts a request of a register notification leaves the
\* record inserted, in the config map, under its name and under each tag
\* when it is the registration itself, and a step that starts a request of
\* a delete or reap notification leaves the record in none of the three
\* maps.
C24_DeliveryAfterMutation ==
    [][\A u \in 1..MaxIds :
          /\ Sends("register", u) =>
                 /\ u < nextUUID'
                 /\ AllOrNone(u)'
                 /\ lastEvent'.op = "register" => Has(UUID_TO_CONFIG', u)
          /\ (Sends("deregister", u) \/ Sends("reap", u)) =>
                 /\ ~Has(UUID_TO_CONFIG', u)
                 /\ KeysListing(SERVICE_TO_UUID, u)' = {}
                 /\ KeysListing(TAG_TO_UUID, u)' = {}
      ]_vars

\* the request of a delete notification is in flight and the record it is
\* about is gone
C24_Witness ==
    /\ lastEvent.op = "deregister"
    /\ lastEvent.uuid = 1
    /\ Removed(1)
    /\ \E i \in 1..Len(inflight) :
          inflight[i].kind = "deregister" /\ inflight[i].uuid = 1

\* C25: every live record has lastHeartbeat >= created, before and after
\* every step; while a record is live its created does not change and its
\* lastHeartbeat does not go back.
C25_HeartbeatNotBeforeCreated ==
    [][\A u \in 1..MaxIds :
          /\ Has(UUID_TO_CONFIG, u) =>
                 UUID_TO_CONFIG[u].lastHeartbeat >= UUID_TO_CONFIG[u].created
          /\ Has(UUID_TO_CONFIG', u) =>
                 UUID_TO_CONFIG'[u].lastHeartbeat >= UUID_TO_CONFIG'[u].created
          /\ (Has(UUID_TO_CONFIG, u) /\ Has(UUID_TO_CONFIG', u)) =>
                 /\ UUID_TO_CONFIG'[u].created = UUID_TO_CONFIG[u].created
                 /\ UUID_TO_CONFIG'[u].lastHeartbeat >=
                        UUID_TO_CONFIG[u].lastHeartbeat
      ]_vars

\* a record registered at 0 with a ttl of 59 s got a heartbeat at 60 s and
\* was kept by the tick that followed
C25_Witness ==
    /\ lastEvent.op = "reap"
    /\ \E u \in DOMAIN UUID_TO_CONFIG :
          /\ UUID_TO_CONFIG[u].created = 0
          /\ UUID_TO_CONFIG[u].lastHeartbeat > 0
          /\ UUID_TO_CONFIG[u].ttl < DEFAULT_SERVICE_TTL

\* C26: no array of the name index or of the tag index holds a uuid twice,
\* and no lookup answers two rows of the same uuid.
C26_NoDuplicateIds ==
    /\ \A n \in DOMAIN SERVICE_TO_UUID, u \in 1..MaxIds :
          Count(SERVICE_TO_UUID[n], u) <= 1
    /\ \A t \in DOMAIN TAG_TO_UUID, u \in 1..MaxIds :
          Count(TAG_TO_UUID[t], u) <= 1
    /\ \A selector \in {"name", "tag"}, id \in LookupKeys :
          LET rows == lookup(selector, id)
          IN  \A i, j \in 1..Len(rows) : rows[i].uuid = rows[j].uuid => i = j
====
